---- MODULE Spec2Model ----
(***************************************************************************)
(* Model of sort.c: a Fisher-Yates shuffle (shuffle / ft_swap), a sampler  *)
(* that builds a universe of RANGE entries, shuffles it and copies the     *)
(* first len entries out (create_distinct_random_list), a splitter that    *)
(* copies the two halves of a list into two fresh groups                   *)
(* (split_into_groups), and the harness that calls them (main).            *)
(*                                                                         *)
(* Arrays are functions on 0..n-1, so that an index is the offset of a     *)
(* pointer from the start of its block.  Spec is the program, with the     *)
(* requested length and the outcome of every malloc as inputs.             *)
(* SpecShuffle is shuffle() alone, applied to every small array.           *)
(***************************************************************************)
EXTENDS Integers, Sequences, FiniteSets, TLC

\* #define RANGE 6
RANGE == 6

\* len ranges over 0 .. RANGE + MaxExcess
MaxExcess == 1

\* rand() returns a value in 0 .. MaxRand
MaxRand == 7

\* SpecShuffle shuffles arrays of length 0 .. MaxLen over the values 1 .. MaxLen
MaxLen == 4

\* char *names[] of main; *(names + k) is names[k + 1]
names == <<"dlesieur", "anvilla", "jpantoja", "marimuno", "rocgarci", "vjan-nie">>

VARIABLES
    pc,          \* position of the program
    len,         \* main's len, the argument of both calls
    new_list,    \* the universe of create_distinct_random_list
    nl_state,    \* "none", "alloc", "null" (malloc failed) or "freed"
    result,      \* the result block, main's random_list
    res_state,
    i,           \* loop index
    ptr,         \* shuffle's ptr, as an offset from array
    ret,         \* value returned by create_distinct_random_list
    group_a, ga_state,
    group_b, gb_state,
    ptr_a, ptr_b,  \* split_into_groups' write cursors, as offsets
    oob,         \* writes of split_into_groups past the end of a block
    bad_read,    \* main read through a NULL or uninitialised group
    out,         \* what main printed
    exit_status, \* -1 while running
    array,       \* SpecShuffle: the array being shuffled
    arr_len,     \* SpecShuffle: its length
    sh_ptr,      \* SpecShuffle: shuffle's ptr, as an offset
    orig,        \* SpecShuffle: the array as passed in
    draws,       \* SpecShuffle: the index drawn at each position of ptr
    sh_pc

mvars == <<pc, len, new_list, nl_state, result, res_state, i, ptr, ret,
           group_a, ga_state, group_b, gb_state, ptr_a, ptr_b, oob,
           bad_read, out, exit_status>>
svars == <<array, arr_len, sh_ptr, orig, draws, sh_pc>>
vars == <<mvars, svars>>

----------------------------------------------------------------------------
(* Data *)

\* a Manage cell that malloc returned and nothing has written yet
Uninit == [pseudo |-> "?", id |-> -1]

\* malloc(n * sizeof(Manage)) that succeeded
Block(n) == [k \in 0 .. n - 1 |-> Uninit]

\* a read of cell k; outside the block it yields an indeterminate cell
ReadCell(block, k) == IF k \in DOMAIN block THEN block[k] ELSE Uninit

\* (ptr + i)->pseudo = *(names + i); (ptr + i)->id = i;
NewEntry(k) == [pseudo |-> names[k + 1], id |-> k]

Range(f) == {f[k] : k \in DOMAIN f}

----------------------------------------------------------------------------
(* ft_swap and shuffle *)

\* faulty variant: no temp, *ptr is overwritten and lost
ft_swap_no_temp(a, p, q) == [a EXCEPT ![p] = a[q]]

\* faulty variant: exchanges the pseudo fields and leaves each id in place
ft_swap_label_only(a, p, q) ==
    [a EXCEPT ![p] = [pseudo |-> a[q].pseudo, id |-> a[p].id],
              ![q] = [pseudo |-> a[p].pseudo, id |-> a[q].id]]

\* temp = *ptr; *ptr = *ptr2; *ptr2 = temp;
ft_swap(a, p, q) == [a EXCEPT ![p] = a[q], ![q] = a[p]]

\* while (ptr >= array + 1)
ShuffleContinues(p) == p >= 1

\* faulty variant: rand() % (ptr - array), which never draws ptr itself
SwapIndexExclusive(p, r) == r % p

\* swap_with = array + rand() % (ptr - array + 1)
SwapIndex(p, r) == r % (p + 1)

\* the offsets swap_with can take when ptr is at offset p
JRange(p) == {SwapIndex(p, r) : r \in 0 .. MaxRand}

\* shuffle's loop from ptr = p down, drawing d[p] at each position
RECURSIVE ShuffleFrom(_, _, _)
ShuffleFrom(a, p, d) ==
    IF ShuffleContinues(p)
    THEN ShuffleFrom(ft_swap(a, p, d[p]), p - 1, d)
    ELSE a

\* shuffle(array, n) under the draws d: end = array + len; ptr = end - 1
ShuffleResult(a, n, d) == ShuffleFrom(a, n - 1, d)

----------------------------------------------------------------------------
(* create_distinct_random_list *)

\* faulty variant: lets len = RANGE + 1 through
LenTooLargeOffByOne(n) == n > RANGE + 1

\* if (len > RANGE)
LenTooLarge(n) == n > RANGE

\* faulty variant: if (!result), new_list is not checked
AllocFailedResultOnly(res, nl) == res = "null"

\* if (!result || !new_list)
AllocFailed(res, nl) == res = "null" \/ nl = "null"

\* faulty variant: *res_ptr++ = *ptr, the source pointer never advances
CopyCellNoAdvance(res, nl, k) == [res EXCEPT ![k] = ReadCell(nl, 0)]

\* *res_ptr++ = *ptr++;
CopyCell(res, nl, k) == [res EXCEPT ![k] = ReadCell(nl, k)]

----------------------------------------------------------------------------
(* split_into_groups *)

\* variant: malloc((len + 1) / 2 * sizeof(Manage))
GroupCapacityRoundedUp(n) == (n + 1) \div 2

\* malloc(len / 2 * sizeof(Manage))
GroupCapacity(n) == n \div 2

\* faulty variant: if (i <= len / 2)
InGroupAInclusive(k, n) == k <= n \div 2

\* if (i < len / 2)
InGroupA(k, n) == k < n \div 2

\* if (!*group_a || !*group_b)
SplitAllocFailed(a, b) == a = "null" \/ b = "null"

\* for (int i = 0; i < len / 2; i++) of main's two group loops
Half(n) == n \div 2

----------------------------------------------------------------------------
(* What main prints *)

ErrorMessage == "Error: Failed to create the random list."

\* printf("%s ", block[k].pseudo) for k < n
Pseudos(block, n) == [k \in 1 .. n |-> ReadCell(block, k - 1).pseudo]

\* main reads n cells of a group that is NULL or was never written
ReadsUnproduced(block, state, n) ==
    n > 0 /\ (state # "alloc" \/ \E k \in 0 .. n - 1 : ReadCell(block, k) = Uninit)

----------------------------------------------------------------------------
(* The program: main calling create_distinct_random_list, then             *)
(* split_into_groups                                                       *)

ShuffleIdle ==
    /\ array = <<>> /\ arr_len = 0 /\ sh_ptr = 0
    /\ orig = <<>> /\ draws = <<>> /\ sh_pc = "idle"

\* main up to the call; len is an input (main passes 6)
Init ==
    /\ pc = "call"
    /\ len \in 0 .. RANGE + MaxExcess
    /\ new_list = <<>> /\ nl_state = "none"
    /\ result = <<>> /\ res_state = "none"
    /\ i = 0 /\ ptr = 0 /\ ret = "none"
    /\ group_a = <<>> /\ ga_state = "none"
    /\ group_b = <<>> /\ gb_state = "none"
    /\ ptr_a = 0 /\ ptr_b = 0 /\ oob = 0
    /\ bad_read = FALSE /\ out = <<>> /\ exit_status = -1
    /\ ShuffleIdle

\* if (len > RANGE) return (NULL);
RejectLen ==
    /\ pc = "call"
    /\ LenTooLarge(len)
    /\ ret' = "NULL"
    /\ pc' = "main_check"
    /\ UNCHANGED <<len, new_list, nl_state, result, res_state, i, ptr,
                   group_a, ga_state, group_b, gb_state, ptr_a, ptr_b, oob,
                   bad_read, out, exit_status, svars>>

\* new_list = malloc(RANGE * sizeof(Manage)); result = malloc(len * sizeof(Manage));
Allocate ==
    /\ pc = "call"
    /\ ~LenTooLarge(len)
    /\ \E okn \in BOOLEAN, okr \in BOOLEAN :
          /\ nl_state' = IF okn THEN "alloc" ELSE "null"
          /\ new_list' = IF okn THEN Block(RANGE) ELSE <<>>
          /\ res_state' = IF okr THEN "alloc" ELSE "null"
          /\ result' = IF okr THEN Block(len) ELSE <<>>
    /\ pc' = "validate"
    /\ UNCHANGED <<len, i, ptr, ret, group_a, ga_state, group_b, gb_state,
                   ptr_a, ptr_b, oob, bad_read, out, exit_status, svars>>

\* if (!result || !new_list) return (NULL);   -- nothing is freed
ValidateFail ==
    /\ pc = "validate"
    /\ AllocFailed(res_state, nl_state)
    /\ ret' = "NULL"
    /\ pc' = "main_check"
    /\ UNCHANGED <<len, new_list, nl_state, result, res_state, i, ptr,
                   group_a, ga_state, group_b, gb_state, ptr_a, ptr_b, oob,
                   bad_read, out, exit_status, svars>>

\* ptr = new_list; i = -1;
ValidateOk ==
    /\ pc = "validate"
    /\ ~AllocFailed(res_state, nl_state)
    /\ i' = 0
    /\ pc' = "fill"
    /\ UNCHANGED <<len, new_list, nl_state, result, res_state, ptr, ret,
                   group_a, ga_state, group_b, gb_state, ptr_a, ptr_b, oob,
                   bad_read, out, exit_status, svars>>

\* while (++i < RANGE) { (ptr + i)->pseudo = *(names + i); (ptr + i)->id = i; }
FillEntry ==
    /\ pc = "fill"
    /\ i < RANGE
    /\ new_list' = [new_list EXCEPT ![i] = NewEntry(i)]
    /\ i' = i + 1
    /\ UNCHANGED <<pc, len, nl_state, result, res_state, ptr, ret,
                   group_a, ga_state, group_b, gb_state, ptr_a, ptr_b, oob,
                   bad_read, out, exit_status, svars>>

\* shuffle(new_list, RANGE): end = array + len; ptr = end - 1;
CallShuffle ==
    /\ pc = "fill"
    /\ ~(i < RANGE)
    /\ ptr' = RANGE - 1
    /\ pc' = "shuffle"
    /\ UNCHANGED <<len, new_list, nl_state, result, res_state, i, ret,
                   group_a, ga_state, group_b, gb_state, ptr_a, ptr_b, oob,
                   bad_read, out, exit_status, svars>>

\* swap_with = array + rand() % (ptr - array + 1); ft_swap(ptr, swap_with); ptr--;
ShuffleSwap ==
    /\ pc = "shuffle"
    /\ ShuffleContinues(ptr)
    /\ \E r \in 0 .. MaxRand :
          new_list' = ft_swap(new_list, ptr, SwapIndex(ptr, r))
    /\ ptr' = ptr - 1
    /\ UNCHANGED <<pc, len, nl_state, result, res_state, i, ret,
                   group_a, ga_state, group_b, gb_state, ptr_a, ptr_b, oob,
                   bad_read, out, exit_status, svars>>

\* shuffle returns; ptr = new_list; res_ptr = result; i = -1;
ShuffleReturn ==
    /\ pc = "shuffle"
    /\ ~ShuffleContinues(ptr)
    /\ i' = 0
    /\ pc' = "copy"
    /\ UNCHANGED <<len, new_list, nl_state, result, res_state, ptr, ret,
                   group_a, ga_state, group_b, gb_state, ptr_a, ptr_b, oob,
                   bad_read, out, exit_status, svars>>

\* while (++i < len) *res_ptr++ = *ptr++;
CopyEntry ==
    /\ pc = "copy"
    /\ i < len
    /\ result' = CopyCell(result, new_list, i)
    /\ i' = i + 1
    /\ UNCHANGED <<pc, len, new_list, nl_state, res_state, ptr, ret,
                   group_a, ga_state, group_b, gb_state, ptr_a, ptr_b, oob,
                   bad_read, out, exit_status, svars>>

\* free(new_list); return (result);
FreeAndReturn ==
    /\ pc = "copy"
    /\ ~(i < len)
    /\ nl_state' = "freed"
    /\ ret' = "result"
    /\ pc' = "main_check"
    /\ UNCHANGED <<len, new_list, result, res_state, i, ptr,
                   group_a, ga_state, group_b, gb_state, ptr_a, ptr_b, oob,
                   bad_read, out, exit_status, svars>>

\* if (!random_list) { printf("Error: ..."); return 1; }
MainError ==
    /\ pc = "main_check"
    /\ ret = "NULL"
    /\ out' = Append(out, ErrorMessage)
    /\ exit_status' = 1
    /\ pc' = "exit"
    /\ UNCHANGED <<len, new_list, nl_state, result, res_state, i, ptr, ret,
                   group_a, ga_state, group_b, gb_state, ptr_a, ptr_b, oob,
                   bad_read, svars>>

\* printf("Random distinct list: "); for (i < len) printf("%s ", random_list[i].pseudo);
MainPrintList ==
    /\ pc = "main_check"
    /\ ret = "result"
    /\ out' = out \o <<"Random distinct list: ">> \o Pseudos(result, len)
    /\ pc' = "split_malloc"
    /\ UNCHANGED <<len, new_list, nl_state, result, res_state, i, ptr, ret,
                   group_a, ga_state, group_b, gb_state, ptr_a, ptr_b, oob,
                   bad_read, exit_status, svars>>

\* *group_a = malloc(len / 2 * sizeof(Manage)); *group_b = malloc(...);
SplitAllocate ==
    /\ pc = "split_malloc"
    /\ \E oka \in BOOLEAN, okb \in BOOLEAN :
          /\ ga_state' = IF oka THEN "alloc" ELSE "null"
          /\ group_a' = IF oka THEN Block(GroupCapacity(len)) ELSE <<>>
          /\ gb_state' = IF okb THEN "alloc" ELSE "null"
          /\ group_b' = IF okb THEN Block(GroupCapacity(len)) ELSE <<>>
    /\ pc' = "split_validate"
    /\ UNCHANGED <<len, new_list, nl_state, result, res_state, i, ptr, ret,
                   ptr_a, ptr_b, oob, bad_read, out, exit_status, svars>>

\* if (!*group_a || !*group_b) return;   -- void: main is told nothing
SplitReturnEarly ==
    /\ pc = "split_validate"
    /\ SplitAllocFailed(ga_state, gb_state)
    /\ pc' = "print_a"
    /\ UNCHANGED <<len, new_list, nl_state, result, res_state, i, ptr, ret,
                   group_a, ga_state, group_b, gb_state, ptr_a, ptr_b, oob,
                   bad_read, out, exit_status, svars>>

\* ptr_a = *group_a; ptr_b = *group_b; i = -1;
SplitBegin ==
    /\ pc = "split_validate"
    /\ ~SplitAllocFailed(ga_state, gb_state)
    /\ ptr_a' = 0 /\ ptr_b' = 0 /\ i' = 0
    /\ pc' = "split"
    /\ UNCHANGED <<len, new_list, nl_state, result, res_state, ptr, ret,
                   group_a, ga_state, group_b, gb_state, oob,
                   bad_read, out, exit_status, svars>>

\* if (i < len / 2) *ptr_a++ = *lst++; else *ptr_b++ = *lst++;
\* A write past the end of its block is undefined: the run goes on or dies.
SplitWrite ==
    /\ pc = "split"
    /\ i < len
    /\ LET toA == InGroupA(i, len)
           cursor == IF toA THEN ptr_a ELSE ptr_b
           block == IF toA THEN group_a ELSE group_b
           inside == cursor \in DOMAIN block
       IN  /\ group_a' = IF toA /\ inside
                         THEN [group_a EXCEPT ![ptr_a] = ReadCell(result, i)]
                         ELSE group_a
           /\ group_b' = IF ~toA /\ inside
                         THEN [group_b EXCEPT ![ptr_b] = ReadCell(result, i)]
                         ELSE group_b
           /\ ptr_a' = IF toA THEN ptr_a + 1 ELSE ptr_a
           /\ ptr_b' = IF toA THEN ptr_b ELSE ptr_b + 1
           /\ oob' = IF inside THEN oob ELSE oob + 1
           /\ i' = i + 1
           /\ \E dies \in (IF inside THEN {FALSE} ELSE BOOLEAN) :
                 /\ pc' = IF dies THEN "exit" ELSE pc
                 /\ exit_status' = IF dies THEN 139 ELSE exit_status
    /\ UNCHANGED <<len, new_list, nl_state, result, res_state, ptr, ret,
                   ga_state, gb_state, bad_read, out, svars>>

\* the loop of split_into_groups ends
SplitReturn ==
    /\ pc = "split"
    /\ ~(i < len)
    /\ pc' = "print_a"
    /\ UNCHANGED <<len, new_list, nl_state, result, res_state, i, ptr, ret,
                   group_a, ga_state, group_b, gb_state, ptr_a, ptr_b, oob,
                   bad_read, out, exit_status, svars>>

\* printf("Group A: "); for (i < len / 2) printf("%s ", group_a[i].pseudo);
\* Reading a NULL or unwritten group is undefined: garbage is printed or the run dies.
PrintGroupA ==
    /\ pc = "print_a"
    /\ LET bad == ReadsUnproduced(group_a, ga_state, Half(len))
       IN  /\ bad_read' = (bad_read \/ bad)
           /\ \E dies \in (IF bad THEN BOOLEAN ELSE {FALSE}) :
                 /\ pc' = IF dies THEN "exit" ELSE "print_b"
                 /\ exit_status' = IF dies THEN 139 ELSE exit_status
                 /\ out' = IF dies THEN Append(out, "Group A: ")
                           ELSE out \o <<"Group A: ">> \o Pseudos(group_a, Half(len))
    /\ UNCHANGED <<len, new_list, nl_state, result, res_state, i, ptr, ret,
                   group_a, ga_state, group_b, gb_state, ptr_a, ptr_b, oob, svars>>

\* printf("Group B: "); for (i < len / 2) printf("%s ", group_b[i].pseudo);
PrintGroupB ==
    /\ pc = "print_b"
    /\ LET bad == ReadsUnproduced(group_b, gb_state, Half(len))
       IN  /\ bad_read' = (bad_read \/ bad)
           /\ \E dies \in (IF bad THEN BOOLEAN ELSE {FALSE}) :
                 /\ pc' = IF dies THEN "exit" ELSE "free"
                 /\ exit_status' = IF dies THEN 139 ELSE exit_status
                 /\ out' = IF dies THEN Append(out, "Group B: ")
                           ELSE out \o <<"Group B: ">> \o Pseudos(group_b, Half(len))
    /\ UNCHANGED <<len, new_list, nl_state, result, res_state, i, ptr, ret,
                   group_a, ga_state, group_b, gb_state, ptr_a, ptr_b, oob, svars>>

\* free(random_list); free(group_a); free(group_b); return 0;
MainFree ==
    /\ pc = "free"
    /\ res_state' = "freed"
    /\ ga_state' = IF ga_state = "alloc" THEN "freed" ELSE ga_state
    /\ gb_state' = IF gb_state = "alloc" THEN "freed" ELSE gb_state
    /\ exit_status' = 0
    /\ pc' = "exit"
    /\ UNCHANGED <<len, new_list, nl_state, result, i, ptr, ret,
                   group_a, group_b, ptr_a, ptr_b, oob, bad_read, out, svars>>

Next ==
    \/ RejectLen \/ Allocate \/ ValidateFail \/ ValidateOk
    \/ FillEntry \/ CallShuffle \/ ShuffleSwap \/ ShuffleReturn
    \/ CopyEntry \/ FreeAndReturn
    \/ MainError \/ MainPrintList
    \/ SplitAllocate \/ SplitReturnEarly \/ SplitBegin \/ SplitWrite \/ SplitReturn
    \/ PrintGroupA \/ PrintGroupB \/ MainFree

Spec == Init /\ [][Next]_vars

----------------------------------------------------------------------------
(* shuffle() alone, on every array of length 0 .. MaxLen *)

MainIdle ==
    /\ pc = "idle" /\ len = 0
    /\ new_list = <<>> /\ nl_state = "none"
    /\ result = <<>> /\ res_state = "none"
    /\ i = 0 /\ ptr = 0 /\ ret = "none"
    /\ group_a = <<>> /\ ga_state = "none"
    /\ group_b = <<>> /\ gb_state = "none"
    /\ ptr_a = 0 /\ ptr_b = 0 /\ oob = 0
    /\ bad_read = FALSE /\ out = <<>> /\ exit_status = -1

\* end = array + len; ptr = end - 1;
ShInit ==
    /\ MainIdle
    /\ arr_len \in 0 .. MaxLen
    /\ orig \in [0 .. arr_len - 1 -> 1 .. MaxLen]
    /\ array = orig
    /\ sh_ptr = arr_len - 1
    /\ draws = <<>>
    /\ sh_pc = "loop"

\* swap_with = array + rand() % (ptr - array + 1); ft_swap(ptr, swap_with); ptr--;
ShSwap ==
    /\ sh_pc = "loop"
    /\ ShuffleContinues(sh_ptr)
    /\ \E r \in 0 .. MaxRand :
          LET j == SwapIndex(sh_ptr, r)
          IN  /\ array' = ft_swap(array, sh_ptr, j)
              /\ draws' = (sh_ptr :> j) @@ draws
    /\ sh_ptr' = sh_ptr - 1
    /\ UNCHANGED <<arr_len, orig, sh_pc, mvars>>

\* the loop ends and shuffle returns
ShReturn ==
    /\ sh_pc = "loop"
    /\ ~ShuffleContinues(sh_ptr)
    /\ sh_pc' = "done"
    /\ UNCHANGED <<array, arr_len, sh_ptr, orig, draws, mvars>>

ShNext == ShSwap \/ ShReturn

SpecShuffle == ShInit /\ [][ShNext]_vars

----------------------------------------------------------------------------
(* Properties *)

\* the pool is main's names array; create_distinct_random_list takes its
\* length to be RANGE
PoolLength == Len(names)

Returned == ret # "none"

NoDuplicateIds(block) ==
    \A j \in DOMAIN block, k \in DOMAIN block :
        j # k => block[j].id # block[k].id

\* number of positions of a that hold v
Count(a, v) == Cardinality({k \in DOMAIN a : a[k] = v})

\* a and b have the same length and the same multiset of elements
IsPermutation(a, b) ==
    /\ DOMAIN a = DOMAIN b
    /\ \A v \in Range(a) \cup Range(b) : Count(a, v) = Count(b, v)

Distinct(a) == \A j \in DOMAIN a, k \in DOMAIN a : j # k => a[j] # a[k]

RECURSIVE Factorial(_)
Factorial(n) == IF n <= 1 THEN 1 ELSE n * Factorial(n - 1)

\* every sequence of draws shuffle can make on an array of length n:
\* one offset for each position ptr = n-1 .. 1
RECURSIVE DrawSeqsFrom(_)
DrawSeqsFrom(p) ==
    IF ShuffleContinues(p)
    THEN {(p :> j) @@ d : j \in JRange(p), d \in DrawSeqsFrom(p - 1)}
    ELSE {<<>>}

DrawSeqs(n) == DrawSeqsFrom(n - 1)

\* both blocks of split_into_groups were obtained
SplitAllocated == ga_state \in {"alloc", "freed"} /\ gb_state \in {"alloc", "freed"}

\* split_into_groups has run its loop to the end
SplitLoopOver ==
    /\ SplitAllocated
    /\ \/ pc = "split" /\ ~(i < len)
       \/ pc \in {"print_a", "print_b", "free", "exit"}

\* C1: whenever create_distinct_random_list is called with 0 <= len <= pool
\* length and both of its blocks are obtained, it returns a list; and every
\* list it returns has exactly len entries, all written, whose ids are
\* pairwise distinct and lie in 0 .. pool length - 1.
C1_SampleDistinct ==
    /\ (Returned /\ len <= PoolLength /\ ~(res_state = "null" \/ nl_state = "null"))
          => ret = "result"
    /\ ret = "result" =>
          /\ 0 <= len /\ len <= PoolLength
          /\ DOMAIN result = 0 .. len - 1
          /\ \A k \in DOMAIN result :
                result[k] # Uninit /\ result[k].id \in 0 .. PoolLength - 1
          /\ NoDuplicateIds(result)

C1_Witness ==
    /\ ret = "result" /\ len = PoolLength
    /\ \E k \in DOMAIN result : result[k].id # k

\* C2: a call with len greater than the pool length returns NULL: no list is
\* returned, no block is obtained or written, so nothing capped to the pool
\* size can reach the caller.
C2_RejectsOversized ==
    (len > PoolLength /\ pc # "call") =>
        /\ ret = "NULL"
        /\ res_state = "none" /\ result = <<>>
        /\ nl_state = "none" /\ new_list = <<>>

C2_Witness == len > PoolLength /\ pc = "main_check" /\ ret = "NULL"

\* C3: in every state of shuffle, after each swap and at its return, the
\* array is a permutation of the array passed in (same length, same multiset).
C3_ShufflePermutation == IsPermutation(array, orig)

C3_Witness ==
    /\ sh_pc = "done" /\ arr_len >= 3
    /\ array # orig /\ ~Distinct(orig)

\* C4: when split_into_groups has obtained both blocks and finished on an
\* even len = 2k, group_a and group_b have k cells each, group_a[j] is the
\* j-th cell of the list and group_b[j] its (k + j)-th, for all j < k.
C4_SplitHalves ==
    (SplitLoopOver /\ len % 2 = 0) =>
        LET k == len \div 2
        IN  /\ DOMAIN group_a = 0 .. k - 1
            /\ DOMAIN group_b = 0 .. k - 1
            /\ \A j \in 0 .. k - 1 :
                  /\ group_a[j] = result[j]
                  /\ group_b[j] = result[k + j]

C4_Witness ==
    /\ SplitLoopOver /\ len = RANGE /\ pc = "print_a"
    /\ group_a[0] # NewEntry(0) /\ group_b[0] = NewEntry(0)

\* C5: on an array of length L >= 2 with distinct elements, the draws shuffle
\* can make are exactly one offset in 0 .. p for each position p = L-1 .. 1;
\* there are L! such sequences, they yield L! different arrays, each a
\* permutation of the input, so each of the L! permutations comes from
\* exactly one sequence of draws; the array shuffle returns is the one its
\* own draws yield.
C5_DrawsToPermutationsBijective ==
    (sh_pc = "done" /\ arr_len >= 2 /\ Distinct(orig)) =>
        LET D == DrawSeqs(arr_len)
            Image == {ShuffleResult(orig, arr_len, d) : d \in D}
        IN  /\ \A p \in 1 .. arr_len - 1 : JRange(p) = 0 .. p
            /\ draws \in D
            /\ array = ShuffleResult(orig, arr_len, draws)
            /\ Cardinality(D) = Factorial(arr_len)
            /\ Cardinality(Image) = Factorial(arr_len)
            /\ \A a \in Image : IsPermutation(a, orig)

C5_Witness ==
    /\ sh_pc = "done" /\ arr_len = MaxLen /\ Distinct(orig)
    /\ \A k \in DOMAIN array : array[k] # orig[k]

\* C6: once create_distinct_random_list has returned, on any path, the
\* universe block it obtained has been freed.
C6_UniverseReleased == Returned => nl_state # "alloc"

\* a block split_into_groups asked for, of non-zero size, was not obtained
SplitStorageFailed ==
    GroupCapacity(len) > 0 /\ SplitAllocFailed(ga_state, gb_state)

\* C7: when the run has ended after create_distinct_random_list returned
\* NULL or split_into_groups failed to obtain a block, main has printed an
\* error message, the exit status is non-zero, and no cell of a group that
\* was not produced has been read.
C7_HarnessSurfacesFailure ==
    (pc = "exit" /\ (ret = "NULL" \/ SplitStorageFailed)) =>
        /\ exit_status # 0
        /\ \E k \in DOMAIN out : out[k] = ErrorMessage
        /\ ~bad_read

\* C8: no cell of the universe or of the result is written, and nothing is
\* shuffled, before both blocks have been requested and found non-NULL; if
\* either malloc fails the call returns NULL; a list that is returned is
\* fully written from a fully shuffled universe.
C8_AllocateThenValidate ==
    /\ pc \in {"call", "validate"} =>
          /\ \A k \in DOMAIN new_list : new_list[k] = Uninit
          /\ \A k \in DOMAIN result : result[k] = Uninit
    /\ pc \in {"fill", "shuffle", "copy"} =>
          nl_state = "alloc" /\ res_state = "alloc"
    /\ (Returned /\ (nl_state = "null" \/ res_state = "null")) =>
          /\ ret = "NULL"
          /\ \A k \in DOMAIN new_list : new_list[k] = Uninit
          /\ \A k \in DOMAIN result : result[k] = Uninit
    /\ ret = "result" =>
          /\ ~ShuffleContinues(ptr)
          /\ DOMAIN result = 0 .. len - 1
          /\ \A k \in DOMAIN result :
                result[k] # Uninit /\ result[k] = new_list[k]

C8_Witness ==
    /\ pc = "main_check" /\ ret = "NULL" /\ len > 0
    /\ nl_state = "alloc" /\ res_state = "null"

\* the cell is unwritten, or its label is the pool's label at its id
LabelMatchesId(e) ==
    e = Uninit \/ (e.id \in 0 .. PoolLength - 1 /\ e.pseudo = names[e.id + 1])

\* C9: in every state, every written cell of the universe, of the result
\* and of the two groups carries the label the pool holds at its id.
C9_OriginIndexTravels ==
    /\ \A k \in DOMAIN new_list : LabelMatchesId(new_list[k])
    /\ \A k \in DOMAIN result : LabelMatchesId(result[k])
    /\ \A k \in DOMAIN group_a : LabelMatchesId(group_a[k])
    /\ \A k \in DOMAIN group_b : LabelMatchesId(group_b[k])

C9_Witness ==
    /\ pc = "shuffle" /\ ptr = 0
    /\ \A k \in DOMAIN new_list : new_list[k].id # k

\* C10: when split_into_groups has obtained both blocks and run its loop to
\* the end, each block has len div 2 cells, len writes were made, len div 2
\* through ptr_a and len - len div 2 through ptr_b; no write lands outside
\* its block exactly when len is even, and for odd len exactly one does,
\* through ptr_b.
C10_SplitWrites ==
    SplitLoopOver =>
        /\ DOMAIN group_a = 0 .. (len \div 2) - 1
        /\ DOMAIN group_b = 0 .. (len \div 2) - 1
        /\ ptr_a = len \div 2
        /\ ptr_b = len - (len \div 2)
        /\ ptr_a + ptr_b = len
        /\ (oob = 0) <=> (len % 2 = 0)
        /\ len % 2 = 1 => (oob = 1 /\ ptr_b = (len \div 2) + 1)

C10_Witness ==
    /\ SplitLoopOver /\ pc = "print_a"
    /\ len = RANGE - 1 /\ oob = 1

====
